---- MODULE Spec2Model ----
(***************************************************************************)
(* Model of pkg/mattermost/mattermost.go: the Mattermost bot of Botkube.   *)
(* Bot.Start resolves the team, the bot user and the channel, opens the    *)
(* web socket and launches the goroutine that passes every inbound event   *)
(* to handleMessage, which filters it, runs the Executor and answers with  *)
(* sendMessage.                                                            *)
(*                                                                         *)
(* Texts are sequences of one-character strings, so that HasPrefix,        *)
(* TrimPrefix, concatenation and len are computed as the Go code computes  *)
(* them. Every remote call (Mattermost server, Executor) is a step of its  *)
(* caller: the action named after a call models the return of that call    *)
(* and the code that runs up to the next call.                             *)
(***************************************************************************)
EXTENDS Integers, Sequences, FiniteSets, TLC

VARIABLES
    b,                \* the Bot object (lines 31-38)
    pc,               \* position of Bot.Start
    client,           \* var client (line 13)
    webSocketClient,  \* var webSocketClient (line 14), shadowed in Start
    botUser,          \* var botUser (line 15)
    botTeam,          \* var botTeam (line 16)
    botChannel,       \* var botChannel (line 17)
    wsConn,           \* the local webSocketClient of Start (line 103)
    calls,            \* remote calls issued by Start, in order
    results,          \* outcome of each remote call of Start
    logs,             \* logging.Logger output of Start
    chan,             \* the local botChannel of getBotChannel (line 145)
    serverChannels,   \* the channels the team has on the server
    channelExisted,   \* the channel existed when Start began
    EventChannel,     \* webSocketClient.EventChannel
    arrived,          \* number of events delivered so far
    lpc,              \* position of the listener goroutine
    cur,              \* the event being handled (or handled last), with its calls
    totals            \* running counts of calls made by the listener

vars == <<b, pc, client, webSocketClient, botUser, botTeam, botChannel, wsConn,
          calls, results, logs, chan, serverChannels, channelExisted, EventChannel,
          arrived, lpc, cur, totals>>

startVars == <<pc, client, webSocketClient, botUser, botTeam, botChannel, wsConn,
               calls, results, logs, chan, serverChannels>>

-----------------------------------------------------------------------------
(* Bounds of the model *)

\* number of events the web socket delivers in one behaviour
MaxEvents == 2

-----------------------------------------------------------------------------
(* Constants of the program *)

\* "botkube"
BotName == <<"b", "o", "t", "k", "u", "b", "e">>

ChannelPurpose == "Botkube alerts"

WebSocketProtocol == <<"w", "s", ":">>

Logs == "logs"

\* model.CHANNEL_OPEN
CHANNEL_OPEN == "O"

\* model.WEBSOCKET_EVENT_POSTED
WEBSOCKET_EVENT_POSTED == "posted"

\* the length from which sendMessage uploads a file
MaxInlineLen == 3990

\* a nil pointer
Nil == [nil |-> TRUE]

-----------------------------------------------------------------------------
(* Texts *)

\* strings.HasPrefix(s, prefix)
HasPrefixNoCase(s, prefix) ==
    LET low(c) == IF c = "B" THEN "b" ELSE c
    IN  /\ Len(s) >= Len(prefix)
        /\ \A i \in 1..Len(prefix) : low(s[i]) = low(prefix[i])

HasPrefix(s, prefix) ==
    /\ Len(s) >= Len(prefix)
    /\ SubSeq(s, 1, Len(prefix)) = prefix

\* strings.TrimPrefix(s, prefix)
RECURSIVE TrimPrefixAll(_, _)
TrimPrefixAll(s, prefix) ==
    IF Len(prefix) > 0 /\ HasPrefix(s, prefix)
    THEN TrimPrefixAll(SubSeq(s, Len(prefix) + 1, Len(s)), prefix)
    ELSE s

TrimPrefix(s, prefix) ==
    IF HasPrefix(s, prefix) THEN SubSeq(s, Len(prefix) + 1, Len(s)) ELSE s

\* "@"+BotName+" "
MentionNoSpace == <<"@">> \o BotName

Mention == <<"@">> \o BotName \o <<" ">>

\* the grave accent character (U+0060), which the lexer of TLA+ does not accept
\* inside a string; every character of a text is one element of its sequence
Backtick == "GRAVE"

\* the code-formatting marker put around outMessage (line 185)
WrapNone(outMessage) == outMessage

Wrap(outMessage) == <<Backtick>> \o outMessage \o <<Backtick>>

\* a text of n characters
Pad(n) == [i \in 1..n |-> "x"]

GetPods == <<"g", "e", "t", " ", "p", "o", "d", "s">>

Ping == <<"p", "i", "n", "g">>

-----------------------------------------------------------------------------
(* The Mattermost server, as Start sees it *)

\* the identifier the server gives the team
TeamId == "t1"

\* the identifier the server gives the channel of the configured name
ChannelId == "c1"

\* another channel of the team
OtherChannelId == "c2"

\* the account of the bot and another account whose name starts with BotName
BotAccount == [Id |-> "bot", Username |-> BotName]

OtherAccount == [Id |-> "u2", Username |-> BotName \o <<"2">>]

\* a user who writes to the bot
WriterId == "u1"

\* what client.AutocompleteUsersInTeam may return in users.Users
SearchResults == {<<>>, <<BotAccount>>, <<BotAccount, OtherAccount>>}

\* the outcomes of client.AutocompleteUsersInTeam: an error, or a list of users
SearchOutcomes ==
    {[error |-> TRUE, users |-> <<>>]}
        \cup {[error |-> FALSE, users |-> u] : u \in SearchResults}

\* a channel of the configured name that was on the server before Start
ExistingChannel(channelName) ==
    [Id |-> ChannelId, Name |-> channelName, DisplayName |-> "Alerts",
     Purpose |-> "set by an administrator", Type |-> "P", TeamId |-> TeamId]

\* the channels of the team that carry the name
Named(channelName) == {c \in serverChannels : c.Name = channelName}

\* the outcomes of client.GetChannelByName: found only if the channel exists
LookupOutcomes(channelName) ==
    IF Named(channelName) = {} THEN {"error"} ELSE {"ok", "error"}

\* the outcomes of client.CreateChannel: the server refuses a name it has
CreateOutcomes(channelName) ==
    IF Named(channelName) = {} THEN {"ok", "error"} ELSE {"error"}

-----------------------------------------------------------------------------
(* Bot.Start and its helpers *)

Call(op, arg) == [op |-> op, arg |-> arg]

LogError(msg) == [level |-> "error", msg |-> msg]

LogInfo(msg) == [level |-> "info", msg |-> msg]

NoResults ==
    [s \in {"checkServerConnection", "getBotTeam", "getBotUser", "GetChannelByName",
            "CreateChannel", "AddChannelMember", "NewWebSocketClient4"} |-> "none"]

\* Channel structure in Mattermost
mmChannelPrivate(channelName, teamID) ==
    [Name |-> channelName, DisplayName |-> channelName, Purpose |-> "",
     Type |-> "P", TeamId |-> teamID]

mmChannel(channelName, teamID) ==
    [Name |-> channelName, DisplayName |-> channelName, Purpose |-> ChannelPurpose,
     Type |-> CHANNEL_OPEN, TeamId |-> teamID]

\* the channel the server returns for a create-channel request
Created(request) ==
    [Id |-> ChannelId, Name |-> request.Name, DisplayName |-> request.DisplayName,
     Purpose |-> request.Purpose, Type |-> request.Type, TeamId |-> request.TeamId]

\* users.Users[0]
LastUser(users) == users[Len(users)]

FirstUser(users) == users[1]

\* strings.SplitN(s, sep, 2) for a separator of one character: the text before
\* the first separator and the text after it, or s alone when it has none
SplitN2(s, sep) ==
    LET at == {i \in 1..Len(s) : s[i] = sep}
    IN  IF at = {}
        THEN <<s>>
        ELSE LET first == CHOOSE i \in at : \A j \in at : i <= j
             IN  <<SubSeq(s, 1, first - 1), SubSeq(s, first + 1, Len(s))>>

\* line 95: the plain assignment writes the package's botChannel; a short
\* declaration in its place would leave the package's variable as it was
AssignShadowed(old, new) == old

AssignGlobal(old, new) == new

\* line 155: the arguments of client.AddChannelMember
MembershipSwapped(channel, userID) == [channelId |-> userID, userId |-> channel.Id]

Membership(channel, userID) == [channelId |-> channel.Id, userId |-> userID]

\* err != nil, the test after which Start logs and returns (lines 75, 82, 96)
FailedNever(r) == FALSE

Failed(r) == r = "error"

\* lines 70-74: the client is built and the configuration fetch is issued
Start ==
    /\ pc = "Unstarted"
    /\ client' = [Url |-> b.ServerURL, AuthToken |-> b.Token]
    /\ calls' = Append(calls, Call("GetOldClientConfig", [etag |-> ""]))
    /\ pc' = "checkServerConnection"
    /\ UNCHANGED <<b, webSocketClient, botUser, botTeam, botChannel, wsConn, results,
                   logs, chan, serverChannels, channelExisted, EventChannel, arrived,
                   lpc, cur, totals>>

\* lines 117-122 and 75-81
checkServerConnection ==
    /\ pc = "checkServerConnection"
    /\ \E r \in {"ok", "error"} :
        /\ results' = [results EXCEPT !["checkServerConnection"] = r]
        /\ IF Failed(r)
           THEN /\ logs' = Append(logs, LogError("There was a problem pinging the Mattermost server"))
                /\ pc' = "Stopped"
                /\ calls' = calls
           ELSE /\ calls' = Append(calls, Call("GetTeamByName", [name |-> b.TeamName]))
                /\ pc' = "getBotTeam"
                /\ logs' = logs
    /\ UNCHANGED <<b, client, webSocketClient, botUser, botTeam, botChannel, wsConn,
                   chan, serverChannels, channelExisted, EventChannel, arrived, lpc,
                   cur, totals>>

\* lines 125-131 and 81-88
getBotTeam ==
    /\ pc = "getBotTeam"
    /\ \E r \in {"ok", "error"} :
        /\ results' = [results EXCEPT !["getBotTeam"] = r]
        /\ IF Failed(r)
           THEN /\ botTeam' = Nil
                /\ logs' = Append(logs, LogError("There was a problem finding Mattermost team"))
                /\ pc' = "Stopped"
                /\ calls' = calls
           ELSE /\ botTeam' = [Id |-> TeamId, Name |-> b.TeamName]
                /\ calls' = Append(calls, Call("AutocompleteUsersInTeam",
                                               [teamId |-> botTeam'.Id, username |-> BotName]))
                /\ pc' = "getBotUser"
                /\ logs' = logs
    /\ UNCHANGED <<b, client, webSocketClient, botUser, botChannel, wsConn, chan,
                   serverChannels, channelExisted, EventChannel, arrived, lpc, cur,
                   totals>>

\* lines 134-140 and 88-95; users.Users[0] of an empty result is an index out of
\* range, a run-time panic that nothing recovers
getBotUser ==
    /\ pc = "getBotUser"
    /\ \E r \in SearchOutcomes :
        IF r.error
        THEN /\ results' = [results EXCEPT !["getBotUser"] = "error"]
             /\ botUser' = Nil
             /\ logs' = Append(logs, LogError("There was a problem creating user in Mattermost"))
             /\ pc' = "Stopped"
             /\ calls' = calls
        ELSE IF Len(r.users) = 0
        THEN /\ results' = [results EXCEPT !["getBotUser"] = "empty"]
             /\ pc' = "Crashed"
             /\ UNCHANGED <<botUser, logs, calls>>
        ELSE /\ results' = [results EXCEPT !["getBotUser"] = "ok"]
             /\ botUser' = FirstUser(r.users)
             /\ calls' = Append(calls, Call("GetChannelByName",
                                            [name |-> b.ChannelName, teamId |-> botTeam.Id]))
             /\ pc' = "getBotChannel"
             /\ logs' = logs
    /\ UNCHANGED <<b, client, webSocketClient, botTeam, botChannel, wsConn, chan,
                   serverChannels, channelExisted, EventChannel, arrived, lpc, cur,
                   totals>>

\* lines 145-155: the lookup returns; any error of the lookup leads to the creation
getBotChannel ==
    /\ pc = "getBotChannel"
    /\ \E r \in LookupOutcomes(b.ChannelName) :
        /\ results' = [results EXCEPT !["GetChannelByName"] = r]
        /\ IF r = "error"
           THEN /\ chan' = Nil
                /\ calls' = Append(calls, Call("CreateChannel",
                                               mmChannel(b.ChannelName, botTeam.Id)))
                /\ pc' = "CreateChannel"
                /\ logs' = logs
           ELSE /\ chan' = CHOOSE c \in Named(b.ChannelName) : TRUE
                /\ logs' = Append(logs, LogInfo("Channel created successfully in Mattermost"))
                /\ calls' = Append(calls, Call("AddChannelMember",
                                               Membership(chan', botUser.Id)))
                /\ pc' = "AddChannelMember"
    /\ UNCHANGED <<b, client, webSocketClient, botUser, botTeam, botChannel, wsConn,
                   serverChannels, channelExisted, EventChannel, arrived, lpc, cur,
                   totals>>

\* lines 148-155 and 95-99: the creation returns
CreateChannel ==
    /\ pc = "CreateChannel"
    /\ \E r \in CreateOutcomes(b.ChannelName) :
        /\ results' = [results EXCEPT !["CreateChannel"] = r]
        /\ IF Failed(r)
           THEN /\ chan' = Nil
                /\ botChannel' = Nil
                /\ logs' = Append(logs, LogError("There was a problem creating channel"))
                /\ pc' = "Stopped"
                /\ UNCHANGED <<calls, serverChannels>>
           ELSE /\ chan' = Created(calls[Len(calls)].arg)
                /\ serverChannels' = serverChannels \cup {chan'}
                /\ logs' = Append(logs, LogInfo("Channel created successfully in Mattermost"))
                /\ calls' = Append(calls, Call("AddChannelMember",
                                               Membership(chan', botUser.Id)))
                /\ pc' = "AddChannelMember"
                /\ botChannel' = botChannel
    /\ UNCHANGED <<b, client, webSocketClient, botUser, botTeam, wsConn, channelExisted,
                   EventChannel, arrived, lpc, cur, totals>>

\* lines 155-156 and 95-103: the result of the membership call is dropped,
\* getBotChannel returns and the web socket is requested; SplitN(...)[1] of an
\* address without a colon is an index out of range
AddChannelMember ==
    /\ pc = "AddChannelMember"
    /\ \E r \in {"ok", "error"} :
        results' = [results EXCEPT !["AddChannelMember"] = r]
    /\ botChannel' = AssignGlobal(botChannel, chan)
    /\ IF Len(SplitN2(b.ServerURL, ":")) < 2
       THEN /\ pc' = "Crashed"
            /\ calls' = calls
       ELSE /\ calls' = Append(calls, Call("NewWebSocketClient4",
                                           [url |-> WebSocketProtocol \o SplitN2(b.ServerURL, ":")[2],
                                            authToken |-> client.AuthToken]))
            /\ pc' = "NewWebSocketClient4"
    /\ UNCHANGED <<b, client, webSocketClient, botUser, botTeam, wsConn, logs, chan,
                   serverChannels, channelExisted, EventChannel, arrived, lpc, cur,
                   totals>>

\* lines 103-113: the error of NewWebSocketClient4 is dropped, and Listen on the nil
\* client it leaves is a nil dereference; the package's webSocketClient is shadowed
\* by the local one and stays nil
NewWebSocketClient4 ==
    /\ pc = "NewWebSocketClient4"
    /\ \E r \in {"ok", "error"} :
        /\ results' = [results EXCEPT !["NewWebSocketClient4"] = r]
        /\ IF r = "error"
           THEN /\ pc' = "Crashed"
                /\ UNCHANGED <<wsConn, lpc>>
           ELSE /\ wsConn' = calls[Len(calls)].arg
                /\ lpc' = "wait"
                /\ pc' = "Listening"
    /\ UNCHANGED <<b, client, webSocketClient, botUser, botTeam, botChannel, calls,
                   logs, chan, serverChannels, channelExisted, EventChannel, arrived,
                   cur, totals>>

-----------------------------------------------------------------------------
(* Inbound events *)

\* the message texts users write
Messages ==
    { Mention \o GetPods,
      GetPods,
      <<"@", "B">> \o SubSeq(BotName, 2, Len(BotName)) \o <<" ">> \o GetPods,
      MentionNoSpace,
      Mention \o Mention \o Ping }

\* the posts users write
WriterPosts == {[Id |-> "p1", UserId |-> WriterId, Message |-> m] : m \in Messages}

\* the posts of the bot's own account: a command, and an answer it has sent
BotPosts ==
    {[Id |-> "p2", UserId |-> BotAccount.Id, Message |-> m] :
        m \in {Mention \o GetPods, Wrap(<<"o", "k">>)}}

\* event.Data holding the JSON text of a post under the key "post"
PostData(p) == [kind |-> "post", post |-> p]

\* event.Data without the key "post"
NoData == [kind |-> "absent"]

\* event.Data holding under "post" a text that is no post
BadData == [kind |-> "malformed"]

Channels == {ChannelId, OtherChannelId}

WebSocketEvent(type, data, channelId) ==
    [Event |-> type, Data |-> data, Broadcast |-> [ChannelId |-> channelId]]

\* the events the web socket delivers: posts of users in both channels, posts of
\* the bot, "posted" events with no usable payload, and events of another type
Events ==
    {WebSocketEvent(WEBSOCKET_EVENT_POSTED, PostData(p), c) :
        p \in WriterPosts, c \in Channels}
        \cup {WebSocketEvent(WEBSOCKET_EVENT_POSTED, d, ChannelId) :
                d \in {PostData(p) : p \in BotPosts} \cup {NoData, BadData}}
        \cup {WebSocketEvent("typing", d, ChannelId) :
                d \in {NoData, PostData([Id |-> "p1", UserId |-> WriterId,
                                         Message |-> Mention \o GetPods])}}

\* what the Executor may return: nothing, a short text, and the texts around
\* the length from which the answer is sent as a file
ExecOutputs ==
    {<<>>, <<"o", "k">>, Pad(MaxInlineLen - 3), Pad(MaxInlineLen - 2)}

\* what a successful upload returns in res.FileInfos
UploadResults == {<<[Id |-> "f1"]>>, <<[Id |-> "f1"], [Id |-> "f2"]>>}

\* the outcomes of client.UploadFileAsRequestBody: an error, or the file infos
UploadOutcomes ==
    {[error |-> TRUE, FileInfos |-> <<>>]}
        \cup {[error |-> FALSE, FileInfos |-> f] : f \in UploadResults}

-----------------------------------------------------------------------------
(* handleMessage and sendMessage *)

\* model.PostFromJson(strings.NewReader(...)): nil for a text that is no post
PostFromJson(data) == IF data.kind = "post" THEN data.post ELSE Nil

\* line 162
IsPostedAny(event) == TRUE

IsPosted(event) == event.Event = WEBSOCKET_EVENT_POSTED

\* line 168
IgnoredPrefixOnly(post) == ~HasPrefix(post.Message, Mention)

IgnoredBoth(post) ==
    post.UserId = botUser.Id /\ ~HasPrefix(post.Message, Mention)

Ignored(post) ==
    post.UserId = botUser.Id \/ ~HasPrefix(post.Message, Mention)

\* lines 174-177
IsAuthChannelAlways(event) == TRUE

IsAuthChannel(event) == event.Broadcast.ChannelId = botChannel.Id

\* line 181
IsEmptyNever(outMessage) == FALSE

IsEmpty(outMessage) == Len(outMessage) = 0

\* lines 190-192: the post of sendMessage, before its message or file is set
NewPostInBotChannel(postID, channelID) ==
    [ChannelId |-> botChannel.Id, RootId |-> postID, Message |-> <<>>,
     FileIds |-> <<>>]

NewPost(postID, channelID) ==
    [ChannelId |-> channelID, RootId |-> postID, Message |-> <<>>, FileIds |-> <<>>]

\* line 194
TooLargeStrict(msg) == Len(msg) > MaxInlineLen

TooLarge(msg) == Len(msg) >= MaxInlineLen

\* line 199
FileIdsAll(res) == [i \in 1..Len(res) |-> res[i].Id]

FileIds(res) == <<res[1].Id>>

\* the record of one handling of an event
Handling(event) ==
    [event |-> event, state |-> "handling", payloadRead |-> FALSE, post |-> Nil,
     execCalls |-> <<>>, outMessage |-> Nil, out |-> Nil, uploads |-> <<>>,
     uploadResult |-> "none", FileInfos |-> <<>>, posts |-> <<>>, postResult |-> "none", logs |-> <<>>]

NoHandling == [Handling(Nil) EXCEPT !.state = "none"]

Count(field, n) == [totals EXCEPT ![field] = @ + n]

\* one for a post whose author is not the bot (post.UserId of line 168)
FromUser(post) == IF post.UserId # botUser.Id THEN 1 ELSE 0

\* line 108: the receive from the channel yields the oldest event in it
NextEventNewest(queue) == queue[Len(queue)]

NextEvent(queue) == Head(queue)

\* the web socket delivers an event
Arrive ==
    /\ pc = "Listening"
    /\ lpc # "crashed"
    /\ arrived < MaxEvents
    /\ \E e \in Events : EventChannel' = Append(EventChannel, e)
    /\ arrived' = arrived + 1
    /\ UNCHANGED <<b, startVars, channelExisted, lpc, cur, totals>>

\* lines 108-109 and 160-180: the goroutine takes the next event and handles it
\* up to the call of the Executor
handleMessage ==
    /\ lpc = "wait"
    /\ EventChannel # <<>>
    /\ EventChannel' = Tail(EventChannel)
    /\ LET event == NextEvent(EventChannel)
           h == Handling(event)
           post == PostFromJson(event.Data)
       IN  IF ~IsPosted(event)
           THEN /\ cur' = [h EXCEPT !.state = "returned"]
                /\ lpc' = "wait"
                /\ totals' = Count("events", 1)
           ELSE IF event.Data.kind = "absent"
           THEN /\ cur' = [h EXCEPT !.state = "panicked", !.payloadRead = TRUE]
                /\ lpc' = "crashed"
                /\ totals' = Count("events", 1)
           ELSE IF post = Nil
           THEN /\ cur' = [h EXCEPT !.state = "panicked", !.payloadRead = TRUE]
                /\ lpc' = "crashed"
                /\ totals' = Count("events", 1)
           ELSE IF Ignored(post)
           THEN /\ cur' = [h EXCEPT !.state = "returned", !.payloadRead = TRUE,
                                    !.post = post]
                /\ lpc' = "wait"
                /\ totals' = [Count("events", 1) EXCEPT !.fromUsers = @ + FromUser(post)]
           ELSE /\ cur' = [h EXCEPT !.payloadRead = TRUE, !.post = post,
                                    !.execCalls = <<[inMessage |-> TrimPrefix(post.Message, Mention),
                                                     allowkubectl |-> b.AllowKubectl,
                                                     clusterName |-> b.ClusterName,
                                                     channelName |-> b.ChannelName,
                                                     isAuthChannel |-> IsAuthChannel(event)]>>]
                /\ lpc' = "Execute"
                /\ totals' = [Count("events", 1) EXCEPT !.execs = @ + 1,
                                                         !.fromUsers = @ + FromUser(post)]
    /\ UNCHANGED <<b, startVars, channelExisted, arrived>>

\* lines 180-185 and 189-205: the Executor returns; an empty answer is dropped,
\* any other is wrapped and sent, as a file from MaxInlineLen characters on
Execute ==
    /\ lpc = "Execute"
    /\ \E outMessage \in ExecOutputs :
        LET event == cur.event
            msg == Wrap(outMessage)
            post == NewPost(cur.post.Id, event.Broadcast.ChannelId)
        IN  IF IsEmpty(outMessage)
            THEN /\ lpc' = "wait"
                 /\ cur' = [cur EXCEPT !.state = "returned", !.outMessage = outMessage,
                                       !.logs = Append(@, LogInfo("Invalid request. Dumping the response"))]
                 /\ totals' = totals
            ELSE IF TooLarge(msg)
            THEN /\ lpc' = "UploadFileAsRequestBody"
                 /\ cur' = [cur EXCEPT !.outMessage = outMessage, !.out = post,
                                       !.uploads = Append(@, [data |-> msg,
                                                              channelId |-> event.Broadcast.ChannelId,
                                                              filename |-> Logs])]
                 /\ totals' = Count("uploads", 1)
            ELSE /\ lpc' = "CreatePost"
                 /\ cur' = [cur EXCEPT !.outMessage = outMessage,
                                       !.out = [post EXCEPT !.Message = msg],
                                       !.posts = Append(@, [post EXCEPT !.Message = msg])]
                 /\ totals' = Count("posts", 1)
    /\ UNCHANGED <<b, startVars, channelExisted, EventChannel, arrived>>

\* lines 195-205: the upload returns; after a failed upload res is nil and
\* res.FileInfos[0] is a nil dereference
UploadFileAsRequestBody ==
    /\ lpc = "UploadFileAsRequestBody"
    /\ \E r \in UploadOutcomes :
        IF r.error
        THEN /\ cur' = [cur EXCEPT !.state = "panicked", !.uploadResult = "error",
                                   !.logs = Append(@, LogError("Error occured while uploading file"))]
             /\ lpc' = "crashed"
             /\ totals' = totals
        ELSE /\ cur' = [cur EXCEPT !.uploadResult = "ok", !.FileInfos = r.FileInfos,
                                   !.out = [@ EXCEPT !.FileIds = FileIds(r.FileInfos)],
                                   !.posts = Append(@, [cur.out EXCEPT
                                                          !.FileIds = FileIds(r.FileInfos)])]
             /\ lpc' = "CreatePost"
             /\ totals' = Count("posts", 1)
    /\ UNCHANGED <<b, startVars, channelExisted, EventChannel, arrived>>

\* lines 205-208: the creation of the post returns, and so does handleMessage
CreatePost ==
    /\ lpc = "CreatePost"
    /\ \E r \in {"ok", "error"} :
        cur' = [cur EXCEPT !.state = "returned", !.postResult = r,
                           !.logs = IF r = "error"
                                    THEN Append(@, LogError("Failed to send message"))
                                    ELSE @]
    /\ lpc' = "wait"
    /\ UNCHANGED <<b, startVars, channelExisted, EventChannel, arrived, totals>>

-----------------------------------------------------------------------------
(* The specification *)

\* NewMattermostBot, lines 41-55: the fields come from the configuration
Bots ==
    [ServerURL : {<<"h", "t", "t", "p", ":", "/", "/", "m", "m", ":", "8", "0">>},
     Token : {"token"}, TeamName : {"dev"}, ChannelName : {"alerts"},
     ClusterName : {"not-configured"}, AllowKubectl : {FALSE}]

Init ==
    /\ b \in Bots
    /\ pc = "Unstarted"
    /\ client = Nil
    /\ webSocketClient = Nil
    /\ botUser = Nil
    /\ botTeam = Nil
    /\ botChannel = Nil
    /\ wsConn = Nil
    /\ calls = <<>>
    /\ results = NoResults
    /\ logs = <<>>
    /\ chan = Nil
    /\ channelExisted \in BOOLEAN
    /\ serverChannels = IF channelExisted THEN {ExistingChannel(b.ChannelName)} ELSE {}
    /\ EventChannel = <<>>
    /\ arrived = 0
    /\ lpc = "none"
    /\ cur = NoHandling
    /\ totals = [events |-> 0, fromUsers |-> 0, execs |-> 0, uploads |-> 0, posts |-> 0]

Next ==
    \/ Start
    \/ checkServerConnection
    \/ getBotTeam
    \/ getBotUser
    \/ getBotChannel
    \/ CreateChannel
    \/ AddChannelMember
    \/ NewWebSocketClient4
    \/ Arrive
    \/ handleMessage
    \/ Execute
    \/ UploadFileAsRequestBody
    \/ CreatePost

Spec == Init /\ [][Next]_vars

\* lines 105-112: the goroutine keeps taking events while there are any, and
\* every call it makes returns; each of its steps changes where it is or takes
\* an event from the channel
listenerVars == <<lpc, EventChannel>>

FairSpec ==
    /\ Spec
    /\ WF_listenerVars(handleMessage)
    /\ WF_listenerVars(Execute)
    /\ WF_listenerVars(UploadFileAsRequestBody)
    /\ WF_listenerVars(CreatePost)

-----------------------------------------------------------------------------
(* Vocabulary of the properties *)

\* the mention that makes a message a command, written out
MentionText == <<"@", "b", "o", "t", "k", "u", "b", "e", " ">>

StartsWithMention(m) ==
    /\ Len(m) >= Len(MentionText)
    /\ \A i \in 1..Len(MentionText) : m[i] = MentionText[i]

\* an event has been taken from the web socket
Taken == cur.state # "none"

\* the event in hand is a new post
PostedEvent == cur.event.Event = "posted"

\* the event in hand carries a post, and who wrote it and what
CarriesPost == cur.event.Data.kind = "post"

ByBot == cur.event.Data.post.UserId = botUser.Id

Prefixed == StartsWithMention(cur.event.Data.post.Message)

\* nothing was sent for the event in hand
NothingSent == cur.uploads = <<>> /\ cur.posts = <<>>

\* the positions of the calls of Start to one operation of the server
CallsOf(op) == {i \in 1..Len(calls) : calls[i].op = op}

ErrorLogged == \E i \in 1..Len(logs) : logs[i].level = "error"

-----------------------------------------------------------------------------
(* C1 to C3: the filter of handleMessage *)

\* C1: the Executor is called for an event only if the event is a new post whose
\* author is not the resolved bot user and whose text starts with "@botkube "
\* (exact case, with the space); for a post of the bot itself and for a post
\* without that prefix neither the Executor is called nor anything is sent.
C1_ExecutorGating ==
    Taken =>
        /\ cur.execCalls # <<>> =>
              PostedEvent /\ CarriesPost /\ ~ByBot /\ Prefixed
        /\ (PostedEvent /\ CarriesPost /\ (ByBot \/ ~Prefixed)) =>
              /\ cur.execCalls = <<>>
              /\ NothingSent
              /\ cur.state = "returned"

C1_Witness ==
    /\ Taken /\ PostedEvent /\ CarriesPost
    /\ ByBot /\ Prefixed
    /\ cur.state = "returned"
    /\ cur.execCalls = <<>>
    /\ totals.execs > 0

\* C2: the isAuthChannel flag of every call of the Executor is true exactly when
\* the broadcast channel of the event is the channel resolved by Start, and false
\* for every other channel.
C2_AuthFlag ==
    Taken =>
        \A i \in 1..Len(cur.execCalls) :
            cur.execCalls[i].isAuthChannel
                <=> (cur.event.Broadcast.ChannelId = botChannel.Id)

C2_Witness ==
    /\ Taken
    /\ Len(cur.execCalls) = 1
    /\ cur.event.Broadcast.ChannelId = OtherChannelId
    /\ botChannel.Id = ChannelId
    /\ ~cur.execCalls[1].isAuthChannel

\* C3: for an event of any type but "posted" the Executor is not called, nothing
\* is uploaded or posted, and the payload of the event is not read (so an event
\* without payload does no harm).
C3_TypeFilter ==
    (Taken /\ ~PostedEvent) =>
        /\ cur.execCalls = <<>>
        /\ NothingSent
        /\ ~cur.payloadRead
        /\ cur.state = "returned"
        /\ lpc = "wait"

C3_Witness ==
    /\ Taken /\ ~PostedEvent
    /\ cur.event.Data.kind = "absent"
    /\ cur.state = "returned"
    /\ lpc = "wait"

-----------------------------------------------------------------------------
(* C4 and C5: the channel *)

\* C4: when the channel of the configured name exists in the team, Start never
\* asks the server to create a channel, and the channel it resolves is the
\* existing one.
C4_NoCreateForExistingChannel ==
    channelExisted =>
        /\ CallsOf("CreateChannel") = {}
        /\ chan # Nil => chan = ExistingChannel(b.ChannelName)

\* C5: when the channel of the configured name is absent from the team, the
\* resolution issues exactly one create-channel call, for a channel of that name
\* in the resolved team, of purpose "Botkube alerts" and type open; if that call
\* fails Start stops there.
C5_CreateAbsentChannel ==
    /\ Cardinality(CallsOf("CreateChannel")) <= 1
    /\ (~channelExisted /\ results["GetChannelByName"] # "none") =>
          /\ Cardinality(CallsOf("CreateChannel")) = 1
          /\ \A i \in CallsOf("CreateChannel") :
                /\ calls[i].arg.Name = b.ChannelName
                /\ calls[i].arg.Purpose = "Botkube alerts"
                /\ calls[i].arg.Type = "O"
                /\ calls[i].arg.TeamId = botTeam.Id
                /\ botTeam.Id = TeamId
    /\ results["CreateChannel"] = "error" =>
          /\ pc = "Stopped"
          /\ ErrorLogged
          /\ calls[Len(calls)].op = "CreateChannel"
          /\ lpc = "none"
          /\ wsConn = Nil

C5_Witness ==
    /\ ~channelExisted
    /\ results["CreateChannel"] = "ok"
    /\ pc = "Listening"
    /\ botChannel.Purpose = "Botkube alerts"

-----------------------------------------------------------------------------
(* C6 and C7: failures of Start *)

\* one of the four steps before the web socket has failed
ServerCheckFailed == results["checkServerConnection"] = "error"

TeamLookupFailed == results["getBotTeam"] = "error"

UserLookupFailed == results["getBotUser"] \in {"error", "empty"}

ChannelFailed == results["CreateChannel"] = "error"

StepFailed ==
    ServerCheckFailed \/ TeamLookupFailed \/ UserLookupFailed \/ ChannelFailed

AllStepsSucceeded ==
    /\ results["checkServerConnection"] = "ok"
    /\ results["getBotTeam"] = "ok"
    /\ results["getBotUser"] = "ok"
    /\ results["GetChannelByName"] = "ok" \/ results["CreateChannel"] = "ok"

\* the web socket has been asked for, opened, or is being listened to
StreamTouched ==
    \/ CallsOf("NewWebSocketClient4") # {}
    \/ wsConn # Nil
    \/ lpc # "none"
    \/ pc = "Listening"

\* C6: when one of the four steps of Start fails (server check, team lookup, bot
\* user lookup, channel resolution or creation), Start logs the error and returns,
\* and neither the web socket is opened nor the listener launched; listening
\* begins only after all four have succeeded.
C6_FailedStartNeverListens ==
    /\ StepFailed => (pc = "Stopped" /\ ErrorLogged /\ ~StreamTouched)
    /\ StreamTouched => AllStepsSucceeded

\* the part of C6 that the code keeps: no failure of a step is followed by the
\* web socket or the listener
ListeningOnlyAfterAllSteps ==
    /\ StepFailed => ~StreamTouched
    /\ StreamTouched => AllStepsSucceeded

\* C7: when the search for the bot user returns no user, or an error, Start ends
\* with an error that it logs, does not crash, and does not go on to the channel.
C7_MissingBotUserAborts ==
    UserLookupFailed =>
        /\ pc = "Stopped"
        /\ ErrorLogged
        /\ CallsOf("GetChannelByName") = {}

-----------------------------------------------------------------------------
(* C8 to C10: failures and sizes of the answer *)

\* the handling of the event in hand has met a failure
HandlingFailed ==
    \/ PostedEvent /\ cur.event.Data.kind \in {"absent", "malformed"}
    \/ cur.outMessage = <<>>
    \/ cur.uploadResult = "error"
    \/ cur.postResult = "error"

\* C8: a failure in the handling of one event (no payload, a payload that is no
\* post, an empty answer of the Executor, a failed upload, a failed post) leaves
\* the listener running: it returns to waiting for the next event.
C8_ListenerSurvivesFailures ==
    (Taken /\ HandlingFailed) => (lpc = "wait" /\ cur.state = "returned")

\* C9: a failure of the upload or of the creation of the post is logged and
\* sendMessage returns normally; neither call is made twice.
C9_SendFailuresSwallowed ==
    /\ Len(cur.uploads) <= 1
    /\ Len(cur.posts) <= 1
    /\ cur.uploadResult = "error" =>
          /\ cur.state # "panicked"
          /\ lpc # "crashed"
          /\ \E i \in 1..Len(cur.logs) : cur.logs[i].level = "error"
    /\ cur.postResult = "error" =>
          /\ cur.state = "returned"
          /\ lpc = "wait"
          /\ \E i \in 1..Len(cur.logs) : cur.logs[i].level = "error"

\* the answer of the Executor as sendMessage receives it
Wrapped == <<Backtick>> \o cur.outMessage \o <<Backtick>>

\* sendMessage has been called for the event in hand
SendCalled == Taken /\ cur.outMessage # Nil /\ cur.outMessage # <<>>

\* C10: when the wrapped answer has 3990 characters or more, sendMessage uploads
\* it as the file "logs" to the channel of the event, and the post it then
\* creates, once the upload has returned its file infos, refers to exactly the
\* first of them and has an empty message.
C10_OversizedAsFile ==
    (SendCalled /\ Len(Wrapped) >= 3990) =>
        /\ cur.uploads = <<[data |-> Wrapped,
                            channelId |-> cur.event.Broadcast.ChannelId,
                            filename |-> "logs"]>>
        /\ cur.posts # <<>> => cur.uploadResult = "ok"
        /\ cur.uploadResult = "ok" =>
              /\ Len(cur.posts) = 1
              /\ cur.posts[1].FileIds = <<cur.FileInfos[1].Id>>
              /\ cur.posts[1].Message = <<>>
              /\ cur.posts[1].ChannelId = cur.event.Broadcast.ChannelId

C10_Witness ==
    /\ SendCalled
    /\ Len(Wrapped) = 3990
    /\ cur.uploadResult = "ok"
    /\ Len(cur.FileInfos) = 2
    /\ cur.postResult = "ok"
    /\ cur.state = "returned"

-----------------------------------------------------------------------------
(* C11 to C14: the answer *)

\* C11: when the wrapped answer has fewer than 3990 characters, sendMessage
\* uploads nothing and creates a post whose message is the wrapped answer and
\* which has no file; 3989 characters are sent so, 3990 are not.
C11_InlineBelowThreshold ==
    /\ (SendCalled /\ Len(Wrapped) < 3990) =>
          /\ cur.uploads = <<>>
          /\ Len(cur.posts) = 1
          /\ cur.posts[1].Message = Wrapped
          /\ cur.posts[1].FileIds = <<>>
    /\ (SendCalled /\ Len(Wrapped) >= 3990) =>
          \A i \in 1..Len(cur.posts) : cur.posts[i].Message = <<>>

C11_Witness ==
    /\ SendCalled
    /\ Len(Wrapped) = 3989
    /\ cur.uploads = <<>>
    /\ cur.postResult = "ok"
    /\ cur.state = "returned"

\* C12: when the Executor returns the empty text, sendMessage is not called:
\* nothing is uploaded and no post is created for that event.
C12_EmptyResultDropped ==
    (Taken /\ cur.outMessage = <<>>) =>
        /\ NothingSent
        /\ cur.out = Nil
        /\ cur.state = "returned"
        /\ lpc = "wait"

C12_Witness ==
    /\ Taken
    /\ cur.outMessage = <<>>
    /\ Len(cur.execCalls) = 1
    /\ cur.state = "returned"

\* C13: the command given to the Executor is the message without its one leading
\* "@botkube ", and nothing else of it is changed: "@botkube get pods" gives
\* "get pods", and a second "@botkube " inside the message stays.
C13_CommandExtraction ==
    Taken =>
        \A i \in 1..Len(cur.execCalls) :
            /\ MentionText \o cur.execCalls[i].inMessage = cur.post.Message
            /\ cur.post.Message = MentionText \o <<"g", "e", "t", " ", "p", "o", "d", "s">>
                  => cur.execCalls[i].inMessage = <<"g", "e", "t", " ", "p", "o", "d", "s">>

C13_Witness ==
    /\ Taken
    /\ Len(cur.execCalls) = 1
    /\ cur.post.Message = MentionText \o MentionText \o <<"p", "i", "n", "g">>
    /\ cur.execCalls[1].inMessage = MentionText \o <<"p", "i", "n", "g">>

\* C14: the post created for an answer is a reply to the post of the event
\* (RootId) in the broadcast channel of the event, also when that channel is not
\* the one resolved by Start; the upload, when there is one, goes to the same
\* channel.
C14_ReplyAddressing ==
    Taken =>
        /\ \A i \in 1..Len(cur.posts) :
              /\ cur.posts[i].RootId = cur.event.Data.post.Id
              /\ cur.posts[i].ChannelId = cur.event.Broadcast.ChannelId
        /\ \A i \in 1..Len(cur.uploads) :
              cur.uploads[i].channelId = cur.event.Broadcast.ChannelId
        /\ SendCalled => (cur.posts # <<>> \/ cur.uploads # <<>>)

C14_Witness ==
    /\ Taken
    /\ cur.event.Broadcast.ChannelId = OtherChannelId
    /\ botChannel.Id # OtherChannelId
    /\ Len(cur.uploads) = 1
    /\ Len(cur.posts) = 1
    /\ cur.posts[1].ChannelId = OtherChannelId
    /\ cur.posts[1].RootId = "p1"
    /\ cur.postResult = "ok"

-----------------------------------------------------------------------------
(* C15: one event at a time, in the order of arrival *)

\* the listener is in the middle of the handling of an event
Busy == lpc \in {"Execute", "UploadFileAsRequestBody", "CreatePost"}

\* C15: the events are handled one at a time in the order of their arrival: an
\* event is taken only when the handling of the one before has returned, it is
\* the oldest event waiting, arrivals queue up behind the waiting ones, and
\* while an event is being handled no other is taken.
C15_SequentialInOrder ==
    [][ /\ totals'.events # totals.events =>
              /\ lpc = "wait"
              /\ cur.state \in {"none", "returned"}
              /\ EventChannel # <<>>
              /\ cur'.event = Head(EventChannel)
              /\ EventChannel' = Tail(EventChannel)
              /\ totals'.events = totals.events + 1
        /\ arrived' # arrived =>
              /\ Len(EventChannel') = Len(EventChannel) + 1
              /\ SubSeq(EventChannel', 1, Len(EventChannel)) = EventChannel
              /\ totals'.events = totals.events
        /\ Busy =>
              /\ cur'.event = cur.event
              /\ totals'.events = totals.events
        /\ arrived' = totals'.events + Len(EventChannel')
      ]_vars

C15_Witness ==
    /\ lpc = "CreatePost"
    /\ totals.events = 1
    /\ Len(EventChannel) = 1
    /\ EventChannel[1] # cur.event

-----------------------------------------------------------------------------
(* C16 to C18: the order of Start *)

\* the calls of Start in their order, when the channel is found and when it is
\* created
OrderFound ==
    <<"GetOldClientConfig", "GetTeamByName", "AutocompleteUsersInTeam",
      "GetChannelByName", "AddChannelMember", "NewWebSocketClient4">>

OrderCreated ==
    <<"GetOldClientConfig", "GetTeamByName", "AutocompleteUsersInTeam",
      "GetChannelByName", "CreateChannel", "AddChannelMember", "NewWebSocketClient4">>

CallsFollow(order) ==
    /\ Len(calls) <= Len(order)
    /\ \A i \in 1..Len(calls) : calls[i].op = order[i]

LastCall == calls[Len(calls)].op

\* the channels the server had before Start
ChannelsBefore ==
    IF channelExisted THEN {ExistingChannel(b.ChannelName)} ELSE {}

\* C16: Start issues its calls in the order configuration fetch, team lookup,
\* member search, channel lookup, (channel creation), membership, web socket;
\* after the failure of a step no call of a later step is issued, so that a
\* failed start has created no channel, added no member, and posted or uploaded
\* nothing.
C16_StartOrder ==
    /\ CallsFollow(OrderFound) \/ CallsFollow(OrderCreated)
    /\ ServerCheckFailed => LastCall = "GetOldClientConfig"
    /\ TeamLookupFailed => LastCall = "GetTeamByName"
    /\ UserLookupFailed => LastCall = "AutocompleteUsersInTeam"
    /\ ChannelFailed => LastCall = "CreateChannel"
    /\ StepFailed =>
          /\ serverChannels = ChannelsBefore
          /\ CallsOf("AddChannelMember") = {}
          /\ CallsOf("NewWebSocketClient4") = {}
          /\ EventChannel = <<>>
          /\ ~Taken
          /\ totals.execs = 0 /\ totals.uploads = 0 /\ totals.posts = 0

C16_Witness ==
    /\ ChannelFailed
    /\ ~channelExisted
    /\ pc = "Stopped"
    /\ Len(calls) = Len(OrderCreated) - 2

\* the channel has been found or created
ChannelResolved ==
    results["GetChannelByName"] = "ok" \/ results["CreateChannel"] = "ok"

\* C17: once the channel is found or created, exactly one add-member call is
\* issued, for the resolved channel and the bot user, after the calls that
\* resolved the channel; its failure does not stop Start, which goes on to the
\* web socket; when the creation fails no add-member call is issued.
C17_MembershipAdd ==
    /\ ChannelResolved =>
          /\ Cardinality(CallsOf("AddChannelMember")) = 1
          /\ chan \in serverChannels
          /\ chan.Name = b.ChannelName
          /\ \A i \in CallsOf("AddChannelMember") :
                /\ calls[i].arg.channelId = chan.Id
                /\ calls[i].arg.userId = botUser.Id
                /\ botUser.Id = "bot"
                /\ \A j \in CallsOf("GetChannelByName") \cup CallsOf("CreateChannel") :
                      j < i
    /\ ~ChannelResolved => CallsOf("AddChannelMember") = {}
    /\ results["AddChannelMember"] = "error" =>
          /\ pc # "Stopped"
          /\ ~ErrorLogged
          /\ botChannel = chan
          /\ CallsOf("NewWebSocketClient4") # {}

C17_Witness ==
    /\ results["CreateChannel"] = "ok"
    /\ results["AddChannelMember"] = "error"
    /\ pc = "Listening"
    /\ lpc = "wait"

\* the listener task of lines 105-112 has been started
ListenerStarted == lpc # "none"

Identities == <<client, botTeam, botUser, botChannel>>

\* C18: client, botTeam, botUser and botChannel are all assigned when the
\* listener task starts, and no step taken after that, of the handling of an
\* event or any other, changes them: they stay non-nil and keep the values they
\* had when the listener started.
C18_IdentitiesFrozen ==
    [][ ListenerStarted' =>
          /\ client' # Nil
          /\ botTeam' # Nil
          /\ botUser' # Nil
          /\ botChannel' # Nil
          /\ botChannel' \in serverChannels'
          /\ botTeam'.Id = botChannel'.TeamId
          /\ ListenerStarted => Identities' = Identities
      ]_vars

C18_Witness ==
    /\ ListenerStarted
    /\ totals.events = MaxEvents
    /\ totals.posts >= 1
    /\ cur.state = "returned"
    /\ botChannel = chan
    /\ botChannel # Nil /\ botUser # Nil /\ botTeam # Nil /\ client # Nil

-----------------------------------------------------------------------------
(* C19 and C20: the answers to the events *)

\* C19: the handling of one event calls the Executor at most once, uploads at
\* most one file and creates at most one post; over all the events taken, the
\* posts created (and the calls of the Executor) are no more than the "posted"
\* events whose post is not the bot's; and an event that carries a post of the
\* bot leads to no call of the Executor, no upload and no post.
C19_NoReplyAmplification ==
    /\ Len(cur.execCalls) <= 1
    /\ Len(cur.uploads) <= 1
    /\ Len(cur.posts) <= 1
    /\ totals.posts <= totals.execs
    /\ totals.uploads <= totals.execs
    /\ totals.execs <= totals.fromUsers
    /\ totals.fromUsers <= totals.events
    /\ (Taken /\ PostedEvent /\ CarriesPost /\ ByBot) =>
          /\ cur.execCalls = <<>>
          /\ NothingSent
          /\ lpc = "wait"

C19_Witness ==
    /\ Taken /\ PostedEvent /\ CarriesPost /\ ByBot
    /\ cur.event.Data.post.Message = Wrap(<<"o", "k">>)
    /\ cur.state = "returned"
    /\ totals.posts = 1
    /\ totals.fromUsers = 1
    /\ totals.events = 2

\* the event in hand is a new post of a user that starts with the mention, and
\* the Executor has returned a non-empty answer for it
AnswerDue ==
    /\ pc = "Listening"
    /\ Taken /\ PostedEvent /\ CarriesPost /\ ~ByBot /\ Prefixed
    /\ SendCalled

\* a create-post call has been issued for the event in hand
PostIssued == Taken /\ cur.posts # <<>>

\* C20: when the listener runs and every call returns, an event that is a new
\* post of a user, starts with the mention and gets a non-empty answer of the
\* Executor is eventually followed by a create-post call for it.
C20_ResponseLiveness == AnswerDue ~> PostIssued

====
